---- MODULE Spec2Model ----
(***************************************************************************)
(* Radix Name Service (core/radix-name-service/src/lib.rs).                *)
(*                                                                         *)
(* One component owning two XRD vaults (deposits, fees) and a non-fungible *)
(* resource (DomainName) keyed by a 16-byte local id derived from the      *)
(* name.  Every public method is one atomic transaction: a panic anywhere  *)
(* in the method aborts the transaction and nothing it did survives.       *)
(*                                                                         *)
(* Amounts (Decimal) are modelled as naturals: every amount the methods    *)
(* compute is a sum, difference or product of the amounts they are given.  *)
(* Epochs (u64) stay far below 2^64 within the bounds.                     *)
(***************************************************************************)
EXTENDS Integers, Sequences, FiniteSets, TLC

\* lib.rs:18
EPOCHS_PER_YEAR == 15000

-----------------------------------------------------------------------------
(* Bounds of the model *)

\* the epoch counter of the ledger is advanced up to here
MaxEpoch == 30000
\* XRD every account starts with
InitialXrd == 30
\* successful fee-charging calls over one run
MaxFeePayments == 1

\* the ledger's epoch advances in steps of two years
EpochStep == 2 * EPOCHS_PER_YEAR

-----------------------------------------------------------------------------
(* Values *)

Account == {"p1", "p2"}
\* the account instantiate_rns is called from; it receives the admin badge
Deployer == "p1"
\* the accounts that register names
Registrants == Account \ {Deployer}

RADIX_TOKEN == "XRD"
\* the resource address of the DomainName NFT (self.name_resource)
NAME_RESOURCE == "DomainName"
\* any other resource a caller may put in a bucket or a proof
OTHER_RESOURCE == "OTHER"

Suffix == <<".", "x", "r", "d">>
NameAlice == <<"a", "l", "i", "c", "e", ".", "x", "r", "d">>
NameBob == <<"b", "o", "b", ".", "x", "r", "d">>
NameNoSuffix == <<"a", "l", "i", "c", "e">>
Names == {NameAlice, NameBob, NameNoSuffix}

\* ComponentAddress values, as their raw bytes (shortened to two bytes)
AddrA == <<2, 171>>
AddrB == <<2, 60>>
Addresses == {AddrA, AddrB}

Resources == {RADIX_TOKEN, OTHER_RESOURCE}

\* the three parameters of instantiate_rns
DepositPerYearValues == {10}
FeeAddressUpdateValues == {1}
FeeRenewalPerYearValues == {2}

NoData == [exists |-> FALSE]
NoOwner == "nobody"

\* the #[mutable] fields of DomainName (lib.rs:4-14)
DomainNameFields == {"address", "last_valid_epoch", "deposit_amount"}

DomainName(address, last_valid_epoch, deposit_amount) ==
    [exists |-> TRUE, address |-> address, last_valid_epoch |-> last_valid_epoch,
     deposit_amount |-> deposit_amount]

-----------------------------------------------------------------------------
(* hash_name and the local id *)

\* String::ends_with
ends_with(name, suffix) ==
    /\ Len(name) >= Len(suffix)
    /\ SubSeq(name, Len(name) - Len(suffix) + 1, Len(name)) = suffix

\* SHA-256 of the UTF-8 bytes of the name (the 32 digest bytes)
Sha256(name) ==
    CASE name = NameAlice ->
           <<75, 215, 152, 132, 159, 199, 197, 249, 233, 146, 178, 143, 234, 137, 210, 201,
             190, 94, 216, 79, 211, 107, 37, 19, 71, 231, 249, 179, 181, 33, 139, 253>>
      [] name = NameBob ->
           <<165, 218, 152, 199, 103, 98, 59, 0, 255, 125, 218, 150, 40, 28, 253, 120,
             241, 77, 51, 192, 25, 240, 25, 109, 156, 187, 54, 66, 200, 215, 23, 231>>
      [] name = NameNoSuffix ->
           <<43, 216, 6, 201, 127, 14, 0, 175, 26, 31, 195, 50, 143, 167, 99, 169,
             38, 151, 35, 200, 219, 143, 172, 79, 147, 175, 113, 219, 24, 109, 110, 144>>

\* A u128 is kept as eight 16-bit limbs, least significant limb first.
\* u128::from_le_bytes: byte 1 is the least significant byte.
from_le_bytes(bytes) ==
    [i \in 1..8 |-> bytes[2 * i - 1] + 256 * bytes[2 * i]]

\* u128::to_be_bytes: byte 1 is the most significant byte.
to_be_bytes(value) ==
    [k \in 1..16 |->
        LET limb == value[8 - ((k - 1) \div 2)]
        IN  IF k % 2 = 1 THEN limb \div 256 ELSE limb % 256]

\* u128::to_le_bytes
to_le_bytes(value) ==
    [k \in 1..16 |->
        LET limb == value[((k - 1) \div 2) + 1]
        IN  IF k % 2 = 1 THEN limb % 256 ELSE limb \div 256]

\* lib.rs:281-288
hash_name(name) ==
    LET hash == Sha256(name)
        truncated_hash == SubSeq(hash, 1, 16)
    IN  from_le_bytes(truncated_hash)

\* NonFungibleLocalId::Bytes(BytesNonFungibleLocalId::new(hash.to_be_bytes().to_vec()))
LocalId(hash) == to_be_bytes(hash)

LocalIds == {LocalId(hash_name(n)) : n \in Names}

HexDigit(d) ==
    <<"0", "1", "2", "3", "4", "5", "6", "7", "8", "9", "a", "b", "c", "d", "e", "f">>[d + 1]

\* ComponentAddress::to_hex
RECURSIVE to_hex(_)
to_hex(bytes) ==
    IF bytes = <<>> THEN <<>>
    ELSE <<HexDigit(Head(bytes) \div 16), HexDigit(Head(bytes) % 16)>> \o to_hex(Tail(bytes))

-----------------------------------------------------------------------------
(* State *)

VARIABLES
    minter,                \* amount of the minter badge held by the vault self.minter
    deposit_per_year,      \* self.deposit_per_year
    fee_address_update,    \* self.fee_address_update
    fee_renewal_per_year,  \* self.fee_renewal_per_year
    deposits,              \* amount held by the vault self.deposits
    fees,                  \* amount held by the vault self.fees
    name_store,            \* the NFT data of self.name_resource, by local id
    owner,                 \* the account whose vault holds each minted NFT
    admin_badge_holder,    \* the account holding the admin badge
    xrd,                   \* XRD held by each account
    current_epoch,         \* Runtime::current_epoch()
    fee_payments,          \* number of successful fee-charging calls so far
    last,                  \* the last call: its arguments and its outcome
    tickets,               \* local ids of the NFTs held by the vault self.tickets
    ticket_data,           \* the NFT data of the ticket resource, by local id
    ticket_owner,          \* the account holding each ticket that left the vault
    collected_xrd          \* amount held by the vault self.collected_xrd

\* the state of the sporting-event component and of its ticket resource
sporting_event == <<tickets, ticket_data, ticket_owner, collected_xrd>>

vars == <<minter, deposit_per_year, fee_address_update, fee_renewal_per_year, deposits, fees,
          name_store, owner, admin_badge_holder, xrd, current_epoch, fee_payments,
          last, tickets, ticket_data, ticket_owner, collected_xrd>>

\* the state of the component and of its resource, without the record of the call
ledger == <<minter, deposit_per_year, fee_address_update, fee_renewal_per_year, deposits, fees,
            name_store, owner, admin_badge_holder, xrd>>

\* a call before its outcome is known
Call(op, caller) ==
    [op |-> op, caller |-> caller, name |-> <<>>, address |-> <<>>, years |-> 0,
     cert |-> "", ids |-> {}, resource |-> "", amount |-> 0, badge |-> FALSE,
     err |-> "none", bucket |-> 0, nfts |-> {}, text |-> <<>>]

\* the call with its outcome
Done(call, out) ==
    [call EXCEPT !.err = out.err, !.bucket = out.bucket, !.nfts = out.nfts,
                 !.text = out.text]

-----------------------------------------------------------------------------
(* The transaction outcome of a method *)

\* A panic (assert!, expect, todo!, an engine error): the transaction is
\* aborted, the component and the resource are as before the call, and
\* nothing is returned.
Fail(err) ==
    [err |-> err, name_store |-> name_store, deposits |-> deposits, fees |-> fees,
     bucket |-> 0, nfts |-> {}, text |-> <<>>]

\* The method ran to its end.
Ok(store, dep, fee, bucket, nfts, text) ==
    [err |-> "none", name_store |-> store, deposits |-> dep, fees |-> fee,
     bucket |-> bucket, nfts |-> nfts, text |-> text]

-----------------------------------------------------------------------------
(* The resource manager, as the methods use it *)

\* get_non_fungible_data: the data of an NFT, if it exists
get_non_fungible_data(store, id) ==
    IF id \in DOMAIN store THEN store[id] ELSE NoData

\* mint_non_fungible writing over the data of an existing NFT
mint_overwrites(store, id, data) ==
    [ok |-> TRUE, store |-> [store EXCEPT ![id] = data]]

\* mint_non_fungible: refused when the local id already has data
mint_non_fungible(store, id, data) ==
    IF store[id].exists
    THEN [ok |-> FALSE, store |-> store]
    ELSE [ok |-> TRUE, store |-> [store EXCEPT ![id] = data]]

\* a burn that leaves the data of the burned NFTs in the store
burn_keeps_data(store, ids) == store

\* Bucket::burn of a bucket of NFTs
burn(store, ids) ==
    [id \in DOMAIN store |-> IF id \in ids THEN NoData ELSE store[id]]

\* update_non_fungible_data(&id, field_name, value): refused when the NFT
\* does not exist or field_name is not a mutable field of its data
update_non_fungible_data(store, id, field_name, value) ==
    IF ~store[id].exists \/ field_name \notin DomainNameFields
    THEN [ok |-> FALSE, store |-> store]
    ELSE [ok |-> TRUE, store |-> [store EXCEPT ![id][field_name] = value]]

\* validate_proof(ProofValidationMode::ValidateContainsAmount(resource, amount))
validate_proof(proof, resource, amount) ==
    /\ proof.resource = resource
    /\ Cardinality(proof.ids) >= amount

\* a non_fungible that takes one NFT of the proof, however many it holds
is_non_empty(proof) == proof.ids # {}

\* ValidatedProof::non_fungible: panics unless the proof holds one NFT
is_singleton(proof) == Cardinality(proof.ids) = 1

RECURSIVE SumDeposits(_, _)
SumDeposits(store, ids) ==
    IF ids = {} THEN 0
    ELSE LET id == CHOOSE x \in ids : TRUE
         IN  store[id].deposit_amount + SumDeposits(store, ids \ {id})

LiveIds(store) == {id \in DOMAIN store : store[id].exists}

-----------------------------------------------------------------------------
(* Access rules, lib.rs:56-67 *)

\* the access rules without the entry of withdraw_fees
AccessRule_open(method) ==
    CASE method = "burn_expired_names" -> "require_admin_badge"
      [] OTHER -> "allow_all"

AccessRule(method) ==
    CASE method = "burn_expired_names" -> "require_admin_badge"
      [] method = "withdraw_fees" -> "require_admin_badge"
      [] OTHER -> "allow_all"

\* the outcome of calling a method with or without a proof of the admin badge
Authorize(method, badge, out) ==
    IF AccessRule(method) = "allow_all" \/ badge THEN out ELSE Fail("Unauthorized")

-----------------------------------------------------------------------------
(* The methods *)

\* lookup_address with the local id taken from the little-endian bytes
lookup_address_le(name) ==
    LET hash == hash_name(name)
        name_data == get_non_fungible_data(name_store, to_le_bytes(hash))
    IN  IF ~name_data.exists THEN Fail("NameNotFound")
        ELSE Ok(name_store, deposits, fees, 0, {}, to_hex(name_data.address))

\* lib.rs:87-97
lookup_address(name) ==
    LET hash == hash_name(name)
        name_data == get_non_fungible_data(name_store, LocalId(hash))
    IN  IF ~name_data.exists THEN Fail("NameNotFound")
        ELSE Ok(name_store, deposits, fees, 0, {}, to_hex(name_data.address))

\* register_name putting the whole deposit bucket into the vault
register_name_whole_bucket(name, target_address, reserve_years, deposit) ==
    LET hash == hash_name(name)
        deposit_amount == deposit_per_year * reserve_years
        last_valid_epoch == current_epoch + EPOCHS_PER_YEAR * reserve_years
        name_data == DomainName(target_address, last_valid_epoch, deposit_amount)
        minted == mint_non_fungible(name_store, LocalId(hash), name_data)
    IN  IF ~ends_with(name, Suffix) THEN Fail("InvalidNameFormat")
        ELSE IF ~(reserve_years > 0) THEN Fail("ReserveDurationTooShort")
        ELSE IF deposit.resource # RADIX_TOKEN THEN Fail("WrongCurrency")
        ELSE IF ~(deposit.amount >= deposit_amount) THEN Fail("InsufficientPayment")
        ELSE IF ~minted.ok THEN Fail("DuplicateName")
        ELSE Ok(minted.store, deposits + deposit.amount, fees, 0, {LocalId(hash)}, <<>>)

\* register_name without the assertion on reserve_years
register_name_any_years(name, target_address, reserve_years, deposit) ==
    LET hash == hash_name(name)
        deposit_amount == deposit_per_year * reserve_years
        last_valid_epoch == current_epoch + EPOCHS_PER_YEAR * reserve_years
        name_data == DomainName(target_address, last_valid_epoch, deposit_amount)
        minted == mint_non_fungible(name_store, LocalId(hash), name_data)
    IN  IF ~ends_with(name, Suffix) THEN Fail("InvalidNameFormat")
        ELSE IF deposit.resource # RADIX_TOKEN THEN Fail("WrongCurrency")
        ELSE IF ~(deposit.amount >= deposit_amount) THEN Fail("InsufficientPayment")
        ELSE IF ~minted.ok THEN Fail("DuplicateName")
        ELSE Ok(minted.store, deposits + deposit_amount, fees,
                deposit.amount - deposit_amount, {LocalId(hash)}, <<>>)

\* register_name without the assertion on the amount of the deposit
register_name_any_amount(name, target_address, reserve_years, deposit) ==
    LET hash == hash_name(name)
        deposit_amount == deposit_per_year * reserve_years
        last_valid_epoch == current_epoch + EPOCHS_PER_YEAR * reserve_years
        name_data == DomainName(target_address, last_valid_epoch, deposit_amount)
        minted == mint_non_fungible(name_store, LocalId(hash), name_data)
    IN  IF ~ends_with(name, Suffix) THEN Fail("InvalidNameFormat")
        ELSE IF ~(reserve_years > 0) THEN Fail("ReserveDurationTooShort")
        ELSE IF deposit.resource # RADIX_TOKEN THEN Fail("WrongCurrency")
        ELSE IF ~minted.ok THEN Fail("DuplicateName")
        ELSE Ok(minted.store, deposits + deposit.amount, fees, 0, {LocalId(hash)}, <<>>)

\* register_name counting the reserved years from epoch 0
register_name_from_epoch_zero(name, target_address, reserve_years, deposit) ==
    LET hash == hash_name(name)
        deposit_amount == deposit_per_year * reserve_years
        last_valid_epoch == EPOCHS_PER_YEAR * reserve_years
        name_data == DomainName(target_address, last_valid_epoch, deposit_amount)
        minted == mint_non_fungible(name_store, LocalId(hash), name_data)
    IN  IF ~ends_with(name, Suffix) THEN Fail("InvalidNameFormat")
        ELSE IF ~(reserve_years > 0) THEN Fail("ReserveDurationTooShort")
        ELSE IF deposit.resource # RADIX_TOKEN THEN Fail("WrongCurrency")
        ELSE IF ~(deposit.amount >= deposit_amount) THEN Fail("InsufficientPayment")
        ELSE IF ~minted.ok THEN Fail("DuplicateName")
        ELSE Ok(minted.store, deposits + deposit_amount, fees,
                deposit.amount - deposit_amount, {LocalId(hash)}, <<>>)

\* register_name putting one year's deposit into the vault, whatever the
\* number of years
register_name_locks_one_year(name, target_address, reserve_years, deposit) ==
    LET hash == hash_name(name)
        deposit_amount == deposit_per_year * reserve_years
        last_valid_epoch == current_epoch + EPOCHS_PER_YEAR * reserve_years
        name_data == DomainName(target_address, last_valid_epoch, deposit_amount)
        minted == mint_non_fungible(name_store, LocalId(hash), name_data)
    IN  IF ~ends_with(name, Suffix) THEN Fail("InvalidNameFormat")
        ELSE IF ~(reserve_years > 0) THEN Fail("ReserveDurationTooShort")
        ELSE IF deposit.resource # RADIX_TOKEN THEN Fail("WrongCurrency")
        ELSE IF ~(deposit.amount >= deposit_amount) THEN Fail("InsufficientPayment")
        ELSE IF ~minted.ok THEN Fail("DuplicateName")
        ELSE Ok(minted.store, deposits + deposit_per_year, fees,
                deposit.amount - deposit_per_year, {LocalId(hash)}, <<>>)

\* lib.rs:104-151
register_name(name, target_address, reserve_years, deposit) ==
    LET hash == hash_name(name)
        deposit_amount == deposit_per_year * reserve_years
        last_valid_epoch == current_epoch + EPOCHS_PER_YEAR * reserve_years
        name_data == DomainName(target_address, last_valid_epoch, deposit_amount)
        minted == mint_non_fungible(name_store, LocalId(hash), name_data)
    IN  IF ~ends_with(name, Suffix) THEN Fail("InvalidNameFormat")
        ELSE IF ~(reserve_years > 0) THEN Fail("ReserveDurationTooShort")
        ELSE IF deposit.resource # RADIX_TOKEN THEN Fail("WrongCurrency")
        ELSE IF ~(deposit.amount >= deposit_amount) THEN Fail("InsufficientPayment")
        ELSE IF ~minted.ok THEN Fail("DuplicateName")
        ELSE Ok(minted.store, deposits + deposit_amount, fees,
                deposit.amount - deposit_amount, {LocalId(hash)}, <<>>)

\* unregister_name refunding one year's deposit for each NFT
unregister_name_flat(name_nft) ==
    LET total_deposit_amount == deposit_per_year * Cardinality(name_nft.ids)
    IN  IF name_nft.resource # NAME_RESOURCE THEN Fail("InvalidOrEmptyCertificate")
        ELSE IF name_nft.ids = {} THEN Fail("InvalidOrEmptyCertificate")
        ELSE IF total_deposit_amount > deposits THEN Fail("InsufficientBalance")
        ELSE Ok(burn(name_store, name_nft.ids), deposits - total_deposit_amount, fees,
                total_deposit_amount, {}, <<>>)

\* lib.rs:157-172
unregister_name(name_nft) ==
    LET total_deposit_amount == SumDeposits(name_store, name_nft.ids)
    IN  IF name_nft.resource # NAME_RESOURCE THEN Fail("InvalidOrEmptyCertificate")
        ELSE IF name_nft.ids = {} THEN Fail("InvalidOrEmptyCertificate")
        ELSE IF total_deposit_amount > deposits THEN Fail("InsufficientBalance")
        ELSE Ok(burn(name_store, name_nft.ids), deposits - total_deposit_amount, fees,
                total_deposit_amount, {}, <<>>)

\* update_address writing the current epoch into last_valid_epoch
update_address_stamps_epoch(name_nft, new_address, fee) ==
    LET fee_amount == fee_address_update
        id == CHOOSE x \in name_nft.ids : TRUE
        old_name_data == get_non_fungible_data(name_store, id)
        u1 == update_non_fungible_data(name_store, id, "address", new_address)
        u2 == update_non_fungible_data(u1.store, id, "last_valid_epoch", current_epoch)
        u3 == update_non_fungible_data(u2.store, id, "deposit_amount",
                                       old_name_data.deposit_amount)
    IN  IF fee.resource # RADIX_TOKEN THEN Fail("WrongCurrency")
        ELSE IF ~validate_proof(name_nft, NAME_RESOURCE, 1) THEN Fail("OwnershipProofInvalid")
        ELSE IF ~(fee.amount >= fee_amount) THEN Fail("InsufficientPayment")
        ELSE IF ~is_singleton(name_nft) THEN Fail("OwnershipProofInvalid")
        ELSE IF ~old_name_data.exists THEN Fail("NameNotFound")
        ELSE IF ~(u1.ok /\ u2.ok /\ u3.ok) THEN Fail("UnknownMutableFieldName")
        ELSE Ok(u3.store, deposits, fees + fee_amount, fee.amount - fee_amount, {}, <<>>)

\* update_address not writing the old deposit_amount back
update_address_drops_deposit(name_nft, new_address, fee) ==
    LET fee_amount == fee_address_update
        id == CHOOSE x \in name_nft.ids : TRUE
        old_name_data == get_non_fungible_data(name_store, id)
        u1 == update_non_fungible_data(name_store, id, "address", new_address)
        u2 == update_non_fungible_data(u1.store, id, "last_valid_epoch",
                                       old_name_data.last_valid_epoch)
        u3 == update_non_fungible_data(u2.store, id, "deposit_amount", 0)
    IN  IF fee.resource # RADIX_TOKEN THEN Fail("WrongCurrency")
        ELSE IF ~validate_proof(name_nft, NAME_RESOURCE, 1) THEN Fail("OwnershipProofInvalid")
        ELSE IF ~(fee.amount >= fee_amount) THEN Fail("InsufficientPayment")
        ELSE IF ~is_singleton(name_nft) THEN Fail("OwnershipProofInvalid")
        ELSE IF ~old_name_data.exists THEN Fail("NameNotFound")
        ELSE IF ~(u1.ok /\ u2.ok /\ u3.ok) THEN Fail("UnknownMutableFieldName")
        ELSE Ok(u3.store, deposits, fees + fee_amount, fee.amount - fee_amount, {}, <<>>)

\* update_address returning an empty bucket instead of the rest of the fee
update_address_keeps_change(name_nft, new_address, fee) ==
    LET fee_amount == fee_address_update
        id == CHOOSE x \in name_nft.ids : TRUE
        old_name_data == get_non_fungible_data(name_store, id)
        u1 == update_non_fungible_data(name_store, id, "address", new_address)
        u2 == update_non_fungible_data(u1.store, id, "last_valid_epoch",
                                       old_name_data.last_valid_epoch)
        u3 == update_non_fungible_data(u2.store, id, "deposit_amount",
                                       old_name_data.deposit_amount)
    IN  IF fee.resource # RADIX_TOKEN THEN Fail("WrongCurrency")
        ELSE IF ~validate_proof(name_nft, NAME_RESOURCE, 1) THEN Fail("OwnershipProofInvalid")
        ELSE IF ~(fee.amount >= fee_amount) THEN Fail("InsufficientPayment")
        ELSE IF ~is_singleton(name_nft) THEN Fail("OwnershipProofInvalid")
        ELSE IF ~old_name_data.exists THEN Fail("NameNotFound")
        ELSE IF ~(u1.ok /\ u2.ok /\ u3.ok) THEN Fail("UnknownMutableFieldName")
        ELSE Ok(u3.store, deposits, fees + fee_amount, 0, {}, <<>>)

\* lib.rs:178-220
update_address(name_nft, new_address, fee) ==
    LET fee_amount == fee_address_update
        id == CHOOSE x \in name_nft.ids : TRUE
        old_name_data == get_non_fungible_data(name_store, id)
        u1 == update_non_fungible_data(name_store, id, "address", new_address)
        u2 == update_non_fungible_data(u1.store, id, "last_valid_epoch",
                                       old_name_data.last_valid_epoch)
        u3 == update_non_fungible_data(u2.store, id, "deposit_amount",
                                       old_name_data.deposit_amount)
    IN  IF fee.resource # RADIX_TOKEN THEN Fail("WrongCurrency")
        ELSE IF ~validate_proof(name_nft, NAME_RESOURCE, 1) THEN Fail("OwnershipProofInvalid")
        ELSE IF ~(fee.amount >= fee_amount) THEN Fail("InsufficientPayment")
        ELSE IF ~is_singleton(name_nft) THEN Fail("OwnershipProofInvalid")
        ELSE IF ~old_name_data.exists THEN Fail("NameNotFound")
        ELSE IF ~(u1.ok /\ u2.ok /\ u3.ok) THEN Fail("UnknownMutableFieldName")
        ELSE Ok(u3.store, deposits, fees + fee_amount, fee.amount - fee_amount, {}, <<>>)

\* lib.rs:226-263
renew_name(name_nft, renew_years, fee) ==
    LET fee_amount == fee_renewal_per_year * renew_years
        id == CHOOSE x \in name_nft.ids : TRUE
        name_data == get_non_fungible_data(name_store, id)
        new_last_valid_epoch == name_data.last_valid_epoch + EPOCHS_PER_YEAR * renew_years
        u == update_non_fungible_data(name_store, id, "name_data", new_last_valid_epoch)
    IN  IF fee.resource # RADIX_TOKEN THEN Fail("WrongCurrency")
        ELSE IF ~(renew_years > 0) THEN Fail("ReserveDurationTooShort")
        ELSE IF ~validate_proof(name_nft, NAME_RESOURCE, 1) THEN Fail("OwnershipProofInvalid")
        ELSE IF ~(fee.amount >= fee_amount) THEN Fail("InsufficientPayment")
        ELSE IF ~is_singleton(name_nft) THEN Fail("OwnershipProofInvalid")
        ELSE IF ~name_data.exists THEN Fail("NameNotFound")
        ELSE IF ~u.ok THEN Fail("UnknownMutableFieldName")
        ELSE Ok(u.store, deposits, fees + fee_amount, fee.amount - fee_amount, {}, <<>>)

\* burn_expired_names burning the NFTs whose last_valid_epoch has passed
burn_expired_names_sweeps ==
    LET expired == {id \in LiveIds(name_store) :
                        current_epoch > name_store[id].last_valid_epoch}
    IN  Ok(burn(name_store, expired), deposits, fees, 0, {}, <<>>)

\* lib.rs:266-268
burn_expired_names == Fail("NotImplemented")

\* withdraw_fees emptying the deposits vault as well
withdraw_fees_both_vaults == Ok(name_store, 0, 0, fees + deposits, {}, <<>>)

\* lib.rs:272-274
withdraw_fees == Ok(name_store, deposits, 0, fees, {}, <<>>)

-----------------------------------------------------------------------------
(* Initial state: lib.rs:36-83, instantiate_rns called by the deployer *)

Init ==
    /\ minter = 1
    /\ deposit_per_year \in DepositPerYearValues
    /\ fee_address_update \in FeeAddressUpdateValues
    /\ fee_renewal_per_year \in FeeRenewalPerYearValues
    /\ deposits = 0
    /\ fees = 0
    /\ name_store = [id \in LocalIds |-> NoData]
    /\ owner = [id \in LocalIds |-> NoOwner]
    /\ admin_badge_holder = Deployer
    /\ xrd = [a \in Account |-> InitialXrd]
    /\ current_epoch = 0
    /\ fee_payments = 0
    /\ last = Call("instantiate_rns", Deployer)
    /\ tickets = {}
    /\ ticket_data = <<>>
    /\ ticket_owner = <<>>
    /\ collected_xrd = 0

-----------------------------------------------------------------------------
(* The arguments the callers try *)

Arg(name, address, years, cert, ids, resource, amount) ==
    [name |-> name, address |-> address, years |-> years, cert |-> cert, ids |-> ids,
     resource |-> resource, amount |-> amount]

\* register_name: the well-formed calls (exact payment, overpayment), and
\* calls with one thing wrong
RegisterArgs ==
    {Arg(n, a, y[1], "", {}, RADIX_TOKEN, y[2]) :
        n \in {NameAlice, NameBob}, a \in Addresses,
        y \in {<<1, 10>>, <<1, 25>>, <<2, 25>>}}
    \cup {Arg(NameNoSuffix, AddrA, 1, "", {}, RADIX_TOKEN, 10),
          Arg(NameAlice, AddrA, 0, "", {}, RADIX_TOKEN, 10),
          Arg(NameAlice, AddrA, 1, "", {}, OTHER_RESOURCE, 10),
          Arg(NameAlice, AddrA, 1, "", {}, RADIX_TOKEN, 5),
          Arg(NameBob, AddrB, 1, "", {}, RADIX_TOKEN, 5),
          Arg(NameBob, AddrB, 2, "", {}, RADIX_TOKEN, 10)}

\* what a caller can put in a bucket or a proof of NFTs: the NFTs it holds
Held(caller) == {id \in LocalIds : owner[id] = caller}

\* a bucket or a proof: of NFTs the caller holds, or of another resource
Certificates(caller) ==
    {<<NAME_RESOURCE, ids>> : ids \in SUBSET Held(caller)} \cup {<<OTHER_RESOURCE, {}>>}

\* a proof of one name NFT
OneName(caller) == {<<NAME_RESOURCE, {id}>> : id \in Held(caller)}

\* update_address: the well-formed calls, and calls with one thing wrong
UpdateArgs(caller) ==
    {Arg(<<>>, a[1], 0, c[1], c[2], RADIX_TOKEN, a[2]) :
        c \in OneName(caller), a \in {<<AddrA, 1>>, <<AddrB, 1>>, <<AddrB, 4>>}}
    \cup {Arg(<<>>, AddrB, 0, c[1], c[2], f[1], f[2]) :
        c \in OneName(caller), f \in {<<RADIX_TOKEN, 0>>, <<OTHER_RESOURCE, 4>>}}
    \cup {Arg(<<>>, AddrB, 0, c[1], c[2], RADIX_TOKEN, 1) :
        c \in Certificates(caller) \ OneName(caller)}

\* renew_name: the well-formed calls, and calls with one thing wrong
RenewArgs(caller) ==
    {Arg(<<>>, <<>>, y[1], c[1], c[2], RADIX_TOKEN, y[2]) :
        c \in OneName(caller), y \in {<<1, 2>>, <<1, 4>>, <<2, 4>>}}
    \cup {Arg(<<>>, <<>>, y[1], c[1], c[2], y[2], y[3]) :
        c \in OneName(caller),
        y \in {<<0, RADIX_TOKEN, 4>>, <<1, RADIX_TOKEN, 1>>, <<1, OTHER_RESOURCE, 4>>}}
    \cup {Arg(<<>>, <<>>, 1, c[1], c[2], RADIX_TOKEN, 2) :
        c \in Certificates(caller) \ OneName(caller)}

-----------------------------------------------------------------------------
(* Transactions.  The caller takes the payment from its account, calls the *)
(* method and deposits everything the method returns into its account.    *)

\* the ledger after a transaction of `caller` that paid `paid` XRD
Settle(caller, paid, out) ==
    /\ name_store' = out.name_store
    /\ deposits' = out.deposits
    /\ fees' = out.fees
    /\ xrd' = IF out.err = "none"
              THEN [xrd EXCEPT ![caller] = @ - paid + out.bucket]
              ELSE xrd
    /\ owner' = [id \in LocalIds |->
                    IF id \in out.nfts THEN caller
                    ELSE IF ~out.name_store[id].exists THEN NoOwner
                    ELSE owner[id]]

\* a bucket of XRD comes out of the caller's account
Payable(caller, resource, amount) ==
    resource = RADIX_TOKEN => amount <= xrd[caller]

Record(op, caller, arg, badge) ==
    [Call(op, caller) EXCEPT
        !.name = arg.name, !.address = arg.address, !.years = arg.years, !.cert = arg.cert,
        !.ids = arg.ids, !.resource = arg.resource, !.amount = arg.amount, !.badge = badge]

NoArg == Arg(<<>>, <<>>, 0, "", {}, "", 0)

\* lookup_address takes &self: it reads the component and cannot change it
LookupAddress(name) ==
    LET out == Authorize("lookup_address", FALSE, lookup_address(name))
    IN  /\ last' = Done(Record("lookup_address", "anyone", [NoArg EXCEPT !.name = name], FALSE), out)
        /\ UNCHANGED <<sporting_event, minter, deposit_per_year, fee_address_update, fee_renewal_per_year, deposits,
                       fees, name_store, owner, admin_badge_holder, xrd, current_epoch,
                       fee_payments>>

RegisterName(caller, arg) ==
    LET deposit == [resource |-> arg.resource, amount |-> arg.amount]
        out == Authorize("register_name", FALSE,
                         register_name(arg.name, arg.address, arg.years, deposit))
    IN  /\ Payable(caller, arg.resource, arg.amount)
        /\ Settle(caller, arg.amount, out)
        /\ last' = Done(Record("register_name", caller, arg, FALSE), out)
        /\ UNCHANGED <<sporting_event, minter, deposit_per_year, fee_address_update, fee_renewal_per_year,
                       admin_badge_holder, current_epoch, fee_payments>>

UnregisterName(caller, cert, ids) ==
    LET name_nft == [resource |-> cert, ids |-> ids]
        out == Authorize("unregister_name", FALSE, unregister_name(name_nft))
    IN  /\ Settle(caller, 0, out)
        /\ last' = Done(Record("unregister_name", caller,
                               [NoArg EXCEPT !.cert = cert, !.ids = ids], FALSE), out)
        /\ UNCHANGED <<sporting_event, minter, deposit_per_year, fee_address_update, fee_renewal_per_year,
                       admin_badge_holder, current_epoch, fee_payments>>

UpdateAddress(caller, arg) ==
    LET name_nft == [resource |-> arg.cert, ids |-> arg.ids]
        fee == [resource |-> arg.resource, amount |-> arg.amount]
        out == Authorize("update_address", FALSE, update_address(name_nft, arg.address, fee))
    IN  /\ fee_payments < MaxFeePayments
        /\ Payable(caller, arg.resource, arg.amount)
        /\ Settle(caller, arg.amount, out)
        /\ fee_payments' = IF out.err = "none" THEN fee_payments + 1 ELSE fee_payments
        /\ last' = Done(Record("update_address", caller, arg, FALSE), out)
        /\ UNCHANGED <<sporting_event, minter, deposit_per_year, fee_address_update, fee_renewal_per_year,
                       admin_badge_holder, current_epoch>>

RenewName(caller, arg) ==
    LET name_nft == [resource |-> arg.cert, ids |-> arg.ids]
        fee == [resource |-> arg.resource, amount |-> arg.amount]
        out == Authorize("renew_name", FALSE, renew_name(name_nft, arg.years, fee))
    IN  /\ fee_payments < MaxFeePayments
        /\ Payable(caller, arg.resource, arg.amount)
        /\ Settle(caller, arg.amount, out)
        /\ fee_payments' = IF out.err = "none" THEN fee_payments + 1 ELSE fee_payments
        /\ last' = Done(Record("renew_name", caller, arg, FALSE), out)
        /\ UNCHANGED <<sporting_event, minter, deposit_per_year, fee_address_update, fee_renewal_per_year,
                       admin_badge_holder, current_epoch>>

BurnExpiredNames(caller, badge) ==
    LET out == Authorize("burn_expired_names", badge, burn_expired_names)
    IN  /\ badge => admin_badge_holder = caller
        /\ Settle(caller, 0, out)
        /\ last' = Done(Record("burn_expired_names", caller, NoArg, badge), out)
        /\ UNCHANGED <<sporting_event, minter, deposit_per_year, fee_address_update, fee_renewal_per_year,
                       admin_badge_holder, current_epoch, fee_payments>>

WithdrawFees(caller, badge) ==
    LET out == Authorize("withdraw_fees", badge, withdraw_fees)
    IN  /\ badge => admin_badge_holder = caller
        /\ Settle(caller, 0, out)
        /\ last' = Done(Record("withdraw_fees", caller, NoArg, badge), out)
        /\ UNCHANGED <<sporting_event, minter, deposit_per_year, fee_address_update, fee_renewal_per_year,
                       admin_badge_holder, current_epoch, fee_payments>>

\* a registrant sends one of its name NFTs to another account
TransferName(from, to, id) ==
    /\ from # to
    /\ owner[id] = from
    /\ owner' = [owner EXCEPT ![id] = to]
    /\ last' = Record("transfer", from, [NoArg EXCEPT !.cert = NAME_RESOURCE, !.ids = {id}], FALSE)
    /\ UNCHANGED <<sporting_event, minter, deposit_per_year, fee_address_update, fee_renewal_per_year, deposits,
                   fees, name_store, admin_badge_holder, xrd, current_epoch, fee_payments>>

\* the ledger moves on
AdvanceEpoch ==
    /\ current_epoch + EpochStep <= MaxEpoch
    /\ current_epoch' = current_epoch + EpochStep
    /\ last' = Call("advance_epoch", "ledger")
    /\ UNCHANGED <<sporting_event, minter, deposit_per_year, fee_address_update, fee_renewal_per_year, deposits,
                   fees, name_store, owner, admin_badge_holder, xrd, fee_payments>>

Next ==
    \/ \E name \in Names : LookupAddress(name)
    \/ \E caller \in Registrants, arg \in RegisterArgs : RegisterName(caller, arg)
    \/ \E caller \in Account : \E c \in Certificates(caller) : UnregisterName(caller, c[1], c[2])
    \/ \E caller \in Account : \E arg \in UpdateArgs(caller) : UpdateAddress(caller, arg)
    \/ \E caller \in Account : \E arg \in RenewArgs(caller) : RenewName(caller, arg)
    \/ \E caller \in Account, badge \in BOOLEAN : BurnExpiredNames(caller, badge)
    \/ \E caller \in Account, badge \in BOOLEAN : WithdrawFees(caller, badge)
    \/ \E from \in Registrants, to \in Account, id \in LocalIds : TransferName(from, to, id)
    \/ AdvanceEpoch

Spec == Init /\ [][Next]_vars

-----------------------------------------------------------------------------
(* Properties *)

\* the local id of each name: the first 16 bytes of its SHA-256 digest, read
\* as a little-endian number and written out big-endian
IdOf == [name \in Names |-> LocalId(hash_name(name))]

Succeeded(call, op) == call.op = op /\ call.err = "none"

\* C1: the deposits vault holds exactly the sum of deposit_amount over the
\* name NFTs that exist (minted and not burned), in every reachable state.
DepositInvariant == deposits = SumDeposits(name_store, LiveIds(name_store))

\* two names with different deposits are registered, after an overpayment
DepositInvariantWitness ==
    /\ Succeeded(last, "register_name")
    /\ xrd[last.caller] = 0
    /\ Cardinality(LiveIds(name_store)) = 2
    /\ deposits = 3 * deposit_per_year

\* a renew_name call that meets every stated requirement: a proof of one
\* name NFT, at least one year, the fee in XRD
WellFormedRenew(call) ==
    /\ call.op = "renew_name"
    /\ call.cert = NAME_RESOURCE
    /\ Cardinality(call.ids) = 1
    /\ call.years >= 1
    /\ call.resource = RADIX_TOKEN
    /\ call.amount >= fee_renewal_per_year * call.years

\* C2: renew_name on an existing name, for renew_years >= 1 and a sufficient
\* fee, sets last_valid_epoch to its old value + renew_years * EPOCHS_PER_YEAR,
\* whatever the current epoch is.
RenewExtendsDeadline ==
    [][WellFormedRenew(last') =>
        /\ last'.err = "none"
        /\ \A id \in last'.ids :
            name_store'[id].last_valid_epoch
                = name_store[id].last_valid_epoch + last'.years * EPOCHS_PER_YEAR]_vars

\* C3: after a successful register_name(name, target_address, ..) the NFT
\* of the name's local id holds target_address; lookup_address(name) returns
\* (as hex) the address held by the NFT of that same local id; and the
\* address of an NFT stays as it is until a successful update_address or
\* unregister_name of that NFT.  So lookup_address(name) returns the
\* registered address as long as neither happens.
RegisterThenLookup ==
    [][/\ Succeeded(last', "register_name")
            => /\ name_store'[IdOf[last'.name]].exists
               /\ name_store'[IdOf[last'.name]].address = last'.address
               /\ last'.nfts = {IdOf[last'.name]}
       /\ (last'.op = "lookup_address" /\ name_store[IdOf[last'.name]].exists)
            => /\ last'.err = "none"
               /\ last'.text = to_hex(name_store[IdOf[last'.name]].address)
       /\ \A id \in LocalIds :
            (/\ name_store[id].exists
             /\ ~(/\ last'.op \in {"update_address", "unregister_name"}
                  /\ last'.err = "none"
                  /\ id \in last'.ids))
            => /\ name_store'[id].exists
               /\ name_store'[id].address = name_store[id].address]_vars

\* a lookup returns the address a name was registered with, after the epoch
\* has moved on
RegisterThenLookupWitness ==
    /\ Succeeded(last, "lookup_address")
    /\ last.name = NameBob
    /\ last.text = to_hex(AddrB)
    /\ current_epoch > 0

\* a register_name call that meets every stated requirement on its arguments
WellFormedRegister(call) ==
    /\ call.op = "register_name"
    /\ ends_with(call.name, Suffix)
    /\ call.years >= 1
    /\ call.resource = RADIX_TOKEN
    /\ call.amount >= deposit_per_year * call.years

\* C4: register_name of a name whose NFT exists fails with DuplicateName and
\* leaves the NFT's data and holder (and everything else) as they were;
\* register_name of a name whose NFT does not exist succeeds, and once a
\* name is unregistered it can be registered again.
DuplicateRejected ==
    [][/\ (WellFormedRegister(last') /\ name_store[IdOf[last'.name]].exists)
            => /\ last'.err = "DuplicateName"
               /\ UNCHANGED ledger
       /\ (WellFormedRegister(last') /\ ~name_store[IdOf[last'.name]].exists)
            => last'.err = "none"
       /\ Succeeded(last', "unregister_name")
            => \A name \in Names :
                 (IdOf[name] \in last'.ids)
                 => (register_name(name, AddrA, 1,
                        [resource |-> RADIX_TOKEN, amount |-> deposit_per_year]).err)' = "none"]_vars

\* a second registration of a registered name was refused
DuplicateRejectedWitness ==
    /\ last.op = "register_name"
    /\ last.err = "DuplicateName"
    /\ name_store[IdOf[last.name]].exists
    /\ name_store[IdOf[last.name]].address # last.address

\* C5: unregister_name of a non-empty bucket of name NFTs returns the sum of
\* their deposit_amount, burns each of them, takes exactly that sum out of
\* the deposits vault, and leaves the other NFTs as they were.
UnregisterRefunds ==
    [][/\ Succeeded(last', "unregister_name")
            => LET ids == last'.ids
                   total == SumDeposits(name_store, ids)
               IN  /\ ids # {}
                   /\ last'.bucket = total
                   /\ deposits' = deposits - total
                   /\ fees' = fees
                   /\ xrd' = [xrd EXCEPT ![last'.caller] = @ + total]
                   /\ \A id \in LocalIds :
                        IF id \in ids
                        THEN ~name_store'[id].exists /\ owner'[id] = NoOwner
                        ELSE name_store'[id] = name_store[id] /\ owner'[id] = owner[id]
       /\ (last'.op = "unregister_name" /\ last'.cert = NAME_RESOURCE /\ last'.ids # {})
            => last'.err = "none"]_vars

\* two names with different deposits were unregistered in one call
UnregisterRefundsWitness ==
    /\ Succeeded(last, "unregister_name")
    /\ Cardinality(last.ids) = 2
    /\ last.bucket = 3 * deposit_per_year
    /\ deposits = 0

\* an update_address call that meets every stated requirement: a proof of
\* one name NFT, the fee in XRD
WellFormedUpdate(call) ==
    /\ call.op = "update_address"
    /\ call.cert = NAME_RESOURCE
    /\ Cardinality(call.ids) = 1
    /\ call.resource = RADIX_TOKEN
    /\ call.amount >= fee_address_update

\* the call does not meet a requirement of its method, in the state it is
\* made in
ViolatesPrecondition(call) ==
    \/ /\ call.op = "register_name"
       /\ (~WellFormedRegister(call) \/ name_store[IdOf[call.name]].exists)
    \/ call.op = "update_address" /\ ~WellFormedUpdate(call)
    \/ call.op = "renew_name" /\ ~WellFormedRenew(call)
    \/ call.op = "unregister_name" /\ (call.cert # NAME_RESOURCE \/ call.ids = {})
    \/ call.op = "lookup_address" /\ ~name_store[IdOf[call.name]].exists
    \/ call.op \in {"withdraw_fees", "burn_expired_names"} /\ ~call.badge

\* C6: a call that does not meet a requirement of its method fails, and a
\* call that fails changes nothing: the NFTs and their data, the two vaults
\* and the accounts (XRD and NFTs held) are as before the call.
FailedCallChangesNothing ==
    [][/\ ViolatesPrecondition(last') => last'.err # "none"
       /\ last'.err # "none"
            => /\ UNCHANGED <<ledger, current_epoch, fee_payments>>
               /\ last'.bucket = 0
               /\ last'.nfts = {}]_vars

\* an underpaid registration was refused while another name was registered
FailedCallChangesNothingWitness ==
    /\ last.op = "register_name"
    /\ last.err = "InsufficientPayment"
    /\ deposits > 0
    /\ xrd[last.caller] >= last.amount

\* C7: a register_name, update_address or renew_name call that meets the
\* requirements of its method and pays P returns P minus what the method
\* charges: deposit_per_year * reserve_years, fee_address_update,
\* fee_renewal_per_year * renew_years.
ExactChange ==
    [][/\ (WellFormedRegister(last') /\ ~name_store[IdOf[last'.name]].exists)
            => /\ last'.err = "none"
               /\ last'.bucket = last'.amount - deposit_per_year * last'.years
       /\ WellFormedUpdate(last')
            => /\ last'.err = "none"
               /\ last'.bucket = last'.amount - fee_address_update
       /\ WellFormedRenew(last')
            => /\ last'.err = "none"
               /\ last'.bucket = last'.amount - fee_renewal_per_year * last'.years]_vars

\* the part of C7 about register_name and update_address
ExactChangeRegisterUpdate ==
    [][/\ (WellFormedRegister(last') /\ ~name_store[IdOf[last'.name]].exists)
            => /\ last'.err = "none"
               /\ last'.bucket = last'.amount - deposit_per_year * last'.years
               /\ xrd' = [xrd EXCEPT ![last'.caller] = @ - deposit_per_year * last'.years]
       /\ WellFormedUpdate(last')
            => /\ last'.err = "none"
               /\ last'.bucket = last'.amount - fee_address_update
               /\ xrd' = [xrd EXCEPT ![last'.caller] = @ - fee_address_update]]_vars

\* every NFT that exists is held by one account, and only those are held
OneHolder ==
    \A id \in LocalIds : name_store[id].exists <=> owner[id] \in Account

\* the NFTs whose data or existence a step changes
Touched == {id \in LocalIds : name_store'[id] # name_store[id]}

\* the part of C8 that does not need renew_name to succeed: one holder per
\* NFT; only a call of the holder changes or burns an NFT, and it is the NFT
\* of the proof or bucket; the holder's update_address and unregister_name
\* succeed
BearerSafety ==
    [][/\ OneHolder'
       /\ \A id \in Touched :
            name_store[id].exists
            => /\ last'.op \in {"update_address", "renew_name", "unregister_name"}
               /\ last'.err = "none"
               /\ id \in last'.ids
               /\ owner[id] = last'.caller
       /\ WellFormedUpdate(last') => last'.err = "none"
       /\ (last'.op = "unregister_name" /\ last'.cert = NAME_RESOURCE /\ last'.ids # {})
            => last'.err = "none"]_vars

\* C8: every NFT that exists is held by exactly one account; update_address
\* and renew_name change an NFT only for a caller that proves it holds that
\* NFT; whoever holds the NFT (after a transfer: the receiver, no longer the
\* sender) can update, renew and unregister the name.
BearerOwnership ==
    [][/\ OneHolder'
       /\ \A id \in Touched :
            name_store[id].exists
            => /\ last'.op \in {"update_address", "renew_name", "unregister_name"}
               /\ last'.err = "none"
               /\ id \in last'.ids
               /\ owner[id] = last'.caller
       /\ WellFormedUpdate(last') => last'.err = "none"
       /\ WellFormedRenew(last') => last'.err = "none"
       /\ (last'.op = "unregister_name" /\ last'.cert = NAME_RESOURCE /\ last'.ids # {})
            => last'.err = "none"]_vars

\* C9: withdraw_fees and burn_expired_names called without a proof of the
\* admin badge fail with Unauthorized and change nothing; the other methods
\* are called without the badge and never fail with Unauthorized.
AdminGated ==
    [][/\ (last'.op \in {"withdraw_fees", "burn_expired_names"} /\ ~last'.badge)
            => /\ last'.err = "Unauthorized"
               /\ UNCHANGED ledger
       /\ last'.op \in {"lookup_address", "register_name", "update_address", "renew_name",
                        "unregister_name"}
            => /\ ~last'.badge
               /\ last'.err # "Unauthorized"
       /\ Succeeded(last', "withdraw_fees")
            => last'.badge /\ last'.caller = admin_badge_holder]_vars

\* an account without the admin badge tried to withdraw fees that were there
AdminGatedWitness ==
    /\ last.op = "withdraw_fees"
    /\ last.err = "Unauthorized"
    /\ last.caller # admin_badge_holder
    /\ fees > 0

\* C10: a successful withdraw_fees returns the whole balance of the fees
\* vault and leaves it empty; the deposits vault, the NFTs and their data
\* are as before, and the caller receives exactly the fees.
WithdrawDrainsFees ==
    [][Succeeded(last', "withdraw_fees")
        => /\ last'.bucket = fees
           /\ fees' = 0
           /\ deposits' = deposits
           /\ name_store' = name_store
           /\ owner' = owner
           /\ xrd' = [xrd EXCEPT ![last'.caller] = @ + fees]]_vars

\* fees were withdrawn while a deposit stayed locked
WithdrawDrainsFeesWitness ==
    /\ Succeeded(last, "withdraw_fees")
    /\ last.bucket > 0
    /\ fees = 0
    /\ deposits > 0

\* C11: register_name fails and mints nothing when the name does not end on
\* ".xrd" (InvalidNameFormat), reserve_years is 0 (ReserveDurationTooShort),
\* the deposit is not XRD (WrongCurrency) or the deposit is less than
\* deposit_per_year * reserve_years (InsufficientPayment), the checks being
\* made in that order; with deposit_per_year = 10,
\* register_name("bob.xrd", AddrB, 1, 5 XRD) fails with InsufficientPayment.
RegisterRejects ==
    [][last'.op = "register_name" =>
        LET call == last'
            suffix_ok == SubSeq(call.name, Len(call.name) - 3, Len(call.name)) = Suffix
            years_ok == call.years >= 1
            xrd_ok == call.resource = RADIX_TOKEN
            paid_ok == call.amount >= deposit_per_year * call.years
        IN  /\ ~suffix_ok => call.err = "InvalidNameFormat"
            /\ (suffix_ok /\ ~years_ok) => call.err = "ReserveDurationTooShort"
            /\ (suffix_ok /\ years_ok /\ ~xrd_ok) => call.err = "WrongCurrency"
            /\ (suffix_ok /\ years_ok /\ xrd_ok /\ ~paid_ok)
                    => call.err = "InsufficientPayment"
            /\ ~(suffix_ok /\ years_ok /\ xrd_ok /\ paid_ok)
                    => /\ name_store' = name_store
                       /\ owner' = owner
                       /\ deposits' = deposits
                       /\ xrd' = xrd
                       /\ call.nfts = {}
            /\ (/\ deposit_per_year = 10
                /\ call.name = NameBob
                /\ call.address = AddrB
                /\ call.years = 1
                /\ call.resource = RADIX_TOKEN
                /\ call.amount = 5)
                    => call.err = "InsufficientPayment"]_vars

\* register_name("bob.xrd", AddrB, 1, 5 XRD) was refused and bob.xrd is not
\* registered
RegisterRejectsWitness ==
    /\ last.op = "register_name"
    /\ last.name = NameBob
    /\ last.address = AddrB
    /\ last.years = 1
    /\ last.amount = 5
    /\ last.err = "InsufficientPayment"
    /\ ~name_store[IdOf[NameBob]].exists
    /\ deposit_per_year = 10

\* C12: a successful register_name mints the NFT of the name with
\* last_valid_epoch = current epoch + reserve_years * 15000 and
\* deposit_amount = deposit_per_year * reserve_years, adds exactly that
\* amount to the deposits vault, and leaves the fees vault and every other
\* NFT as they were.
RegisterEffects ==
    [][Succeeded(last', "register_name") =>
        LET id == IdOf[last'.name]
            locked == deposit_per_year * last'.years
        IN  /\ ~name_store[id].exists
            /\ name_store'[id] = [exists |-> TRUE,
                                  address |-> last'.address,
                                  last_valid_epoch |-> current_epoch + last'.years * 15000,
                                  deposit_amount |-> locked]
            /\ owner'[id] = last'.caller
            /\ deposits' = deposits + locked
            /\ fees' = fees
            /\ \A other \in LocalIds \ {id} :
                    name_store'[other] = name_store[other] /\ owner'[other] = owner[other]]_vars

\* a name was registered for one year at a later epoch
RegisterEffectsWitness ==
    /\ Succeeded(last, "register_name")
    /\ current_epoch > 0
    /\ name_store[IdOf[last.name]].last_valid_epoch = current_epoch + 15000
    /\ name_store[IdOf[last.name]].deposit_amount = deposit_per_year
    /\ Cardinality(LiveIds(name_store)) = 2
    /\ fees > 0

\* the component was instantiated with deposit_per_year = 10,
\* fee_address_update = 1, fee_renewal_per_year = 2
ScenarioFees ==
    /\ deposit_per_year = 10
    /\ fee_address_update = 1
    /\ fee_renewal_per_year = 2

\* alice.xrd is as register_name("alice.xrd", AddrA, 1, 10 XRD) left it
AliceRegistered ==
    /\ name_store[IdOf[NameAlice]].exists
    /\ name_store[IdOf[NameAlice]].address = AddrA
    /\ name_store[IdOf[NameAlice]].deposit_amount = 10

\* the steps of the scenario of C13 other than renew_name: the registration
\* succeeds, the lookup returns AddrA and unregister_name returns 10
ScenarioRegisterLookupUnregister ==
    [][ScenarioFees =>
        /\ (/\ last'.op = "register_name"
            /\ ~name_store[IdOf[NameAlice]].exists
            /\ last'.name = NameAlice /\ last'.address = AddrA /\ last'.years = 1
            /\ last'.resource = RADIX_TOKEN /\ last'.amount = 10)
                => last'.err = "none" /\ AliceRegistered'
        /\ (AliceRegistered /\ last'.op = "lookup_address" /\ last'.name = NameAlice)
                => last'.err = "none" /\ last'.text = to_hex(AddrA)
        /\ (/\ AliceRegistered
            /\ last'.op = "unregister_name"
            /\ last'.cert = NAME_RESOURCE /\ last'.ids = {IdOf[NameAlice]})
                => last'.err = "none" /\ last'.bucket = 10]_vars

\* C13: with deposit_per_year = 10, fee_address_update = 1 and
\* fee_renewal_per_year = 2, register_name("alice.xrd", AddrA, 1, 10 XRD)
\* succeeds, lookup_address("alice.xrd") then returns AddrA,
\* renew_name(proof of the NFT, 2, 4 XRD) then succeeds and returns no
\* change, and unregister_name of the NFT then returns 10 XRD.
ScenarioExecutable ==
    [][ScenarioFees =>
        /\ (/\ last'.op = "register_name"
            /\ ~name_store[IdOf[NameAlice]].exists
            /\ last'.name = NameAlice /\ last'.address = AddrA /\ last'.years = 1
            /\ last'.resource = RADIX_TOKEN /\ last'.amount = 10)
                => last'.err = "none" /\ AliceRegistered'
        /\ (AliceRegistered /\ last'.op = "lookup_address" /\ last'.name = NameAlice)
                => last'.err = "none" /\ last'.text = to_hex(AddrA)
        /\ (/\ AliceRegistered
            /\ last'.op = "renew_name"
            /\ last'.cert = NAME_RESOURCE /\ last'.ids = {IdOf[NameAlice]}
            /\ last'.years = 2
            /\ last'.resource = RADIX_TOKEN /\ last'.amount = 4)
                => last'.err = "none" /\ last'.bucket = 0 /\ AliceRegistered'
        /\ (/\ AliceRegistered
            /\ last'.op = "unregister_name"
            /\ last'.cert = NAME_RESOURCE /\ last'.ids = {IdOf[NameAlice]})
                => last'.err = "none" /\ last'.bucket = 10]_vars

\* C14: a successful update_address changes only the address of the NFT of
\* the proof: its last_valid_epoch and deposit_amount, every other NFT, the
\* holders and the deposits vault are as before, the fees vault grows by
\* exactly fee_address_update, and lookup_address of that name then returns
\* the new address.
UpdateAddressFrame ==
    [][Succeeded(last', "update_address") =>
        /\ Cardinality(last'.ids) = 1
        /\ \A id \in last'.ids :
            /\ name_store[id].exists
            /\ name_store'[id] = [name_store[id] EXCEPT !.address = last'.address]
            /\ \A name \in Names :
                IdOf[name] = id =>
                    /\ (lookup_address(name).err)' = "none"
                    /\ (lookup_address(name).text)' = to_hex(last'.address)
        /\ \A other \in LocalIds \ last'.ids : name_store'[other] = name_store[other]
        /\ owner' = owner
        /\ deposits' = deposits
        /\ fees' = fees + fee_address_update
        /\ xrd' = [xrd EXCEPT ![last'.caller] = @ - fee_address_update]]_vars

\* the address of one of two registered names was changed, with an
\* overpaid fee
UpdateAddressFrameWitness ==
    /\ Succeeded(last, "update_address")
    /\ last.address = AddrB
    /\ last.bucket = 3
    /\ \A id \in last.ids : name_store[id].address = AddrB
    /\ \E other \in LiveIds(name_store) \ last.ids : name_store[other].address = AddrA
    /\ fees = fee_address_update
    /\ deposits = 2 * deposit_per_year

\* the part of C15 about the requirements: renew_name with renew_years = 0,
\* a fee that is not XRD or a fee below fee_renewal_per_year * renew_years
\* fails and changes nothing
RenewRequirements ==
    [][(/\ last'.op = "renew_name"
        /\ \/ last'.years = 0
           \/ last'.resource # RADIX_TOKEN
           \/ last'.amount < fee_renewal_per_year * last'.years)
            => /\ last'.err # "none"
               /\ UNCHANGED ledger]_vars

\* C15: renew_name with renew_years = 0, a fee that is not XRD or a fee
\* below fee_renewal_per_year * renew_years fails; renew_name with
\* renew_years >= 1, a sufficient XRD fee and a proof of one name NFT
\* succeeds, adds exactly fee_renewal_per_year * renew_years to the fees
\* vault and leaves the NFT's address and deposit_amount, every other NFT
\* and the deposits vault as they were.
RenewFrame ==
    [][/\ (/\ last'.op = "renew_name"
           /\ \/ last'.years = 0
              \/ last'.resource # RADIX_TOKEN
              \/ last'.amount < fee_renewal_per_year * last'.years)
            => /\ last'.err # "none"
               /\ UNCHANGED ledger
       /\ WellFormedRenew(last')
            => /\ last'.err = "none"
               /\ fees' = fees + fee_renewal_per_year * last'.years
               /\ deposits' = deposits
               /\ \A id \in last'.ids :
                    /\ name_store'[id].address = name_store[id].address
                    /\ name_store'[id].deposit_amount = name_store[id].deposit_amount
               /\ \A other \in LocalIds \ last'.ids :
                    name_store'[other] = name_store[other]]_vars

\* C16: lookup_address(name) fails with NameNotFound when no NFT exists for
\* the local id of the name, be it that the name was never registered or
\* that its NFT was burned by unregister_name; lookup_address changes
\* nothing.
LookupNotFound ==
    [][/\ (last'.op = "lookup_address" /\ ~name_store[IdOf[last'.name]].exists)
            => /\ last'.err = "NameNotFound"
               /\ last'.text = <<>>
       /\ last'.op = "lookup_address"
            => UNCHANGED <<ledger, current_epoch, fee_payments>>
       /\ Succeeded(last', "unregister_name")
            => \A name \in Names :
                 (IdOf[name] \in last'.ids) => (lookup_address(name).err)' = "NameNotFound"]_vars

\* a lookup failed after every registered name had been unregistered again
LookupNotFoundWitness ==
    /\ last.op = "lookup_address"
    /\ last.err = "NameNotFound"
    /\ ends_with(last.name, Suffix)
    /\ LiveIds(name_store) = {}
    /\ fees > 0

\* the NFT exists and the current epoch is past its last_valid_epoch
Expired(id) ==
    /\ name_store[id].exists
    /\ current_epoch > name_store[id].last_valid_epoch

\* the part of C17 that does not need renew_name to succeed: an NFT ceases
\* to exist only in a successful unregister_name of it; the epoch moving on
\* changes no NFT; an expired name is still looked up, updated and
\* unregistered; burn_expired_names never completes and changes nothing
NoImplicitExpiryButRenew ==
    [][/\ \A id \in LocalIds :
            (name_store[id].exists /\ ~name_store'[id].exists)
            => Succeeded(last', "unregister_name") /\ id \in last'.ids
       /\ last'.op = "advance_epoch" => UNCHANGED ledger
       /\ (last'.op = "lookup_address" /\ Expired(IdOf[last'.name]))
            => /\ last'.err = "none"
               /\ last'.text = to_hex(name_store[IdOf[last'.name]].address)
       /\ (WellFormedUpdate(last') /\ \A id \in last'.ids : Expired(id))
            => last'.err = "none"
       /\ (/\ last'.op = "unregister_name"
           /\ last'.cert = NAME_RESOURCE
           /\ last'.ids # {}
           /\ \A id \in last'.ids : Expired(id))
            => last'.err = "none"
       /\ last'.op = "burn_expired_names"
            => last'.err # "none" /\ UNCHANGED ledger]_vars

\* C17: an NFT ceases to exist only in a successful unregister_name of it.
\* When the current epoch is past last_valid_epoch the NFT is still there,
\* lookup_address still returns its address, its holder can still update,
\* renew and unregister it, and burn_expired_names never completes, removes
\* no NFT and moves no deposit.
NoImplicitExpiry ==
    [][/\ \A id \in LocalIds :
            (name_store[id].exists /\ ~name_store'[id].exists)
            => Succeeded(last', "unregister_name") /\ id \in last'.ids
       /\ last'.op = "advance_epoch" => UNCHANGED ledger
       /\ (last'.op = "lookup_address" /\ Expired(IdOf[last'.name]))
            => /\ last'.err = "none"
               /\ last'.text = to_hex(name_store[IdOf[last'.name]].address)
       /\ (WellFormedUpdate(last') /\ \A id \in last'.ids : Expired(id))
            => last'.err = "none"
       /\ (WellFormedRenew(last') /\ \A id \in last'.ids : Expired(id))
            => last'.err = "none"
       /\ (/\ last'.op = "unregister_name"
           /\ last'.cert = NAME_RESOURCE
           /\ last'.ids # {}
           /\ \A id \in last'.ids : Expired(id))
            => last'.err = "none"
       /\ last'.op = "burn_expired_names"
            => last'.err # "none" /\ UNCHANGED ledger]_vars

\* an expired name was looked up
ExpiredNameLookedUp ==
    /\ Succeeded(last, "lookup_address")
    /\ Expired(IdOf[last.name])

\* C18: update_address and renew_name called with a proof of no NFT, of two
\* or more name NFTs, or of another resource fail and change no NFT; the
\* failure is OwnershipProofInvalid when the fee (and renew_years) meet the
\* requirements of the method.
ProofAmountExact ==
    [][(/\ last'.op \in {"update_address", "renew_name"}
        /\ (last'.cert # NAME_RESOURCE \/ Cardinality(last'.ids) # 1))
        => /\ last'.err # "none"
           /\ UNCHANGED ledger
           /\ (/\ last'.resource = RADIX_TOKEN
               /\ last'.op = "update_address" => last'.amount >= fee_address_update
               /\ last'.op = "renew_name"
                    => /\ last'.years >= 1
                       /\ last'.amount >= fee_renewal_per_year * last'.years)
                => last'.err = "OwnershipProofInvalid"]_vars

\* update_address was refused for a proof of two name NFTs
ProofAmountExactWitness ==
    /\ last.op = "update_address"
    /\ last.cert = NAME_RESOURCE
    /\ Cardinality(last.ids) = 2
    /\ last.err = "OwnershipProofInvalid"
    /\ \A id \in last.ids : owner[id] = last.caller

\* renew_name was refused for a proof of another resource
ProofOfOtherResourceRefused ==
    /\ last.op = "renew_name"
    /\ last.cert = OTHER_RESOURCE
    /\ last.err = "OwnershipProofInvalid"
    /\ LiveIds(name_store) # {}

DepositAndDeadlineStable ==
    [][\A id \in LocalIds :
        (name_store[id].exists /\ name_store'[id].exists)
        => /\ name_store'[id].deposit_amount = name_store[id].deposit_amount
           /\ name_store'[id].last_valid_epoch >= name_store[id].last_valid_epoch
           /\ name_store'[id].last_valid_epoch # name_store[id].last_valid_epoch
                => /\ Succeeded(last', "renew_name")
                   /\ id \in last'.ids]_vars

\* a name registered at epoch 0 for two years has its deposit and its
\* deadline after its address was changed at a later epoch
DepositAndDeadlineStableWitness ==
    /\ Succeeded(last, "update_address")
    /\ current_epoch > 0
    /\ \A id \in last.ids :
        /\ name_store[id].deposit_amount = 2 * deposit_per_year
        /\ name_store[id].last_valid_epoch = 2 * EPOCHS_PER_YEAR

\* C21: in every reachable state, for every account and every non-empty set
\* of name NFTs it holds, the deposits vault holds at least the sum of
\* their deposit_amount and unregister_name of a bucket of them succeeds
\* and returns that sum, expired or not and whatever was called before.
DepositsRefundable ==
    \A caller \in Account :
        \A ids \in SUBSET Held(caller) :
            ids # {} =>
                LET out == unregister_name([resource |-> NAME_RESOURCE, ids |-> ids])
                IN  /\ deposits >= SumDeposits(name_store, ids)
                    /\ out.err = "none"
                    /\ out.bucket = SumDeposits(name_store, ids)

\* the fees were withdrawn while two names, one of them expired and held by
\* another account than the other, have their deposits locked
DepositsRefundableWitness ==
    /\ Succeeded(last, "withdraw_fees")
    /\ last.bucket > 0
    /\ Cardinality(LiveIds(name_store)) = 2
    /\ \E id \in LocalIds : Expired(id)
    /\ \E a, b \in LocalIds : owner[a] = "p1" /\ owner[b] = "p2"

RECURSIVE SumXrd(_, _)
\* the XRD held by a set of accounts
SumXrd(balance, accounts) ==
    IF accounts = {} THEN 0
    ELSE LET a == CHOOSE x \in accounts : TRUE
         IN  balance[a] + SumXrd(balance, accounts \ {a})

-----------------------------------------------------------------------------
(* The sporting-event component, src/nft/sporting-event/src/lib.rs *)

\* rows of luxury seats minted (the letters of the outer loop)
LuxuryRows == 1
\* luxury seats minted for each row (the numbers of the inner loop)
SeatsPerRow == 2
\* field tickets minted
FieldTickets == 2
\* XRD each account holds when the component is instantiated
BuyerXrd == 250

price_field == 10
price_luxury == 100

Buyers == {"p2"}

\* the letters of the rows, in the order of the loop
Letters == <<"A", "B", "C">>

\* a number of one digit as format! writes it
DigitChar(number) ==
    CASE number = 1 -> "1" [] number = 2 -> "2" [] number = 3 -> "3"
      [] number = 4 -> "4" [] number = 5 -> "5" [] number = 6 -> "6"
      [] number = 7 -> "7" [] number = 8 -> "8" [] number = 9 -> "9"

\* format!("{}{}", letter, number)
format_seat(letter, number) == <<letter, DigitChar(number)>>

\* Option<String>: None, or Some(seat)
None == [some |-> FALSE, value |-> <<>>]
Some(value) == [some |-> TRUE, value |-> value]

Ticket(section, seat, prediction) ==
    [section |-> section, seat |-> seat, prediction |-> prediction]

\* the ids the two loops of instantiate_sporting_event hand to the tickets
LuxuryIds == 1 .. (LuxuryRows * SeatsPerRow)
FieldIds == 101 .. (100 + FieldTickets)
TicketIds == LuxuryIds \cup FieldIds

\* the row and the seat number of the luxury ticket minted with manual_id
RowOf(manual_id) == ((manual_id - 1) \div SeatsPerRow) + 1
NumberOf(manual_id) == ((manual_id - 1) % SeatsPerRow) + 1

\* the tickets as they are minted
MintedTickets ==
    [manual_id \in TicketIds |->
        IF manual_id \in LuxuryIds
        THEN Ticket("Luxury",
                    Some(format_seat(Letters[RowOf(manual_id)], NumberOf(manual_id))),
                    "Home")
        ELSE Ticket("Field", None, "Home")]

\* the seats a buyer asks for: the seats that were minted, and one that was not
Seats ==
    {format_seat(Letters[r], n) : r \in 1 .. LuxuryRows, n \in 1 .. SeatsPerRow}
    \cup {<<"D", "1">>}

\* the state of the name service component and of its resource
name_service == <<minter, deposit_per_year, fee_address_update, fee_renewal_per_year,
                  deposits, fees, name_store, owner, admin_badge_holder, current_epoch,
                  fee_payments>>

\* a call of a method of the sporting event before its outcome is known
TicketCall(op, caller, seat, will_home_team_win, payment) ==
    [op |-> op, caller |-> caller, seat |-> seat, will_home_team_win |-> will_home_team_win,
     resource |-> payment.resource, amount |-> payment.amount,
     err |-> "none", bucket |-> 0, nfts |-> {}]

\* a panic: the transaction is aborted and nothing is returned
TicketFail(err) ==
    [err |-> err, tickets |-> tickets, ticket_data |-> ticket_data,
     collected_xrd |-> collected_xrd, bucket |-> 0, nfts |-> {}]

\* a ticket search that leaves the ticket it found in the vault
get_ticket_leaves_ticket(vault, section, seat) ==
    LET matching == {id \in vault : ticket_data[id].section = section
                                    /\ ticket_data[id].seat = seat}
    IN  IF matching = {} THEN [ok |-> FALSE, id |-> 0, tickets |-> vault]
        ELSE LET id == CHOOSE x \in matching : \A y \in matching : x <= y
             IN  [ok |-> TRUE, id |-> id, tickets |-> vault]

\* lib.rs:109-123: the first ticket of the vault, in the order of the local
\* ids, with this section and this seat, taken out of the vault
get_ticket(vault, section, seat) ==
    LET matching == {id \in vault : ticket_data[id].section = section
                                    /\ ticket_data[id].seat = seat}
    IN  IF matching = {} THEN [ok |-> FALSE, id |-> 0, tickets |-> vault]
        ELSE LET id == CHOOSE x \in matching : \A y \in matching : x <= y
             IN  [ok |-> TRUE, id |-> id, tickets |-> vault \ {id}]

\* lib.rs:126-150
switch_nft_prediction(data, id) ==
    [data EXCEPT ![id].prediction = "Away"]

\* the body shared by lib.rs:153-165 and lib.rs:168-181
buy_ticket(price, section, seat, will_home_team_win, payment) ==
    LET found == get_ticket(tickets, section, seat)
        data == IF ~will_home_team_win
                THEN switch_nft_prediction(ticket_data, found.id)
                ELSE ticket_data
    IN  IF ~(payment.amount >= price) THEN TicketFail("InsufficientPayment")
        ELSE IF payment.resource # RADIX_TOKEN THEN TicketFail("WrongCurrency")
        ELSE IF ~found.ok THEN TicketFail("TicketNotFound")
        ELSE [err |-> "none", tickets |-> found.tickets, ticket_data |-> data,
              collected_xrd |-> collected_xrd + price,
              bucket |-> payment.amount - price, nfts |-> {found.id}]

\* lib.rs:153-165
buy_field_ticket(will_home_team_win, payment) ==
    buy_ticket(price_field, "Field", None, will_home_team_win, payment)

\* lib.rs:168-181
buy_luxury_ticket(seat, will_home_team_win, payment) ==
    buy_ticket(price_luxury, "Luxury", Some(seat), will_home_team_win, payment)

\* lib.rs:37-106, instantiate_sporting_event: every ticket is minted into
\* the vault self.tickets; no name service is instantiated
EventInit ==
    /\ tickets = TicketIds
    /\ ticket_data = MintedTickets
    /\ ticket_owner = [id \in TicketIds |-> NoOwner]
    /\ collected_xrd = 0
    /\ xrd = [a \in Account |-> BuyerXrd]
    /\ last = TicketCall("instantiate_sporting_event", Deployer, None, TRUE,
                         [resource |-> "", amount |-> 0])
    /\ minter = 0
    /\ deposit_per_year = 0
    /\ fee_address_update = 0
    /\ fee_renewal_per_year = 0
    /\ deposits = 0
    /\ fees = 0
    /\ name_store = [id \in LocalIds |-> NoData]
    /\ owner = [id \in LocalIds |-> NoOwner]
    /\ admin_badge_holder = NoOwner
    /\ current_epoch = 0
    /\ fee_payments = 0

\* the payments a buyer tries: the price, more, less, another resource
FieldPayments ==
    {[resource |-> RADIX_TOKEN, amount |-> a] : a \in {5, 10, 15}}
    \cup {[resource |-> OTHER_RESOURCE, amount |-> 10]}

LuxuryPayments ==
    {[resource |-> RADIX_TOKEN, amount |-> a] : a \in {50, 100, 120}}
    \cup {[resource |-> OTHER_RESOURCE, amount |-> 100]}

\* the ledger after a transaction of `caller` that called a buy method
TicketSettle(caller, call, payment, out) ==
    /\ Payable(caller, payment.resource, payment.amount)
    /\ tickets' = out.tickets
    /\ ticket_data' = out.ticket_data
    /\ collected_xrd' = out.collected_xrd
    /\ xrd' = IF out.err = "none"
              THEN [xrd EXCEPT ![caller] = @ - payment.amount + out.bucket]
              ELSE xrd
    /\ ticket_owner' = [id \in TicketIds |->
                            IF id \in out.nfts THEN caller ELSE ticket_owner[id]]
    /\ last' = [call EXCEPT !.err = out.err, !.bucket = out.bucket, !.nfts = out.nfts]
    /\ UNCHANGED name_service

BuyFieldTicket(caller, will_home_team_win, payment) ==
    TicketSettle(caller,
                 TicketCall("buy_field_ticket", caller, None, will_home_team_win, payment),
                 payment,
                 buy_field_ticket(will_home_team_win, payment))

BuyLuxuryTicket(caller, seat, will_home_team_win, payment) ==
    TicketSettle(caller,
                 TicketCall("buy_luxury_ticket", caller, Some(seat), will_home_team_win,
                            payment),
                 payment,
                 buy_luxury_ticket(seat, will_home_team_win, payment))

EventNext ==
    \/ \E caller \in Buyers, will_home_team_win \in BOOLEAN, payment \in FieldPayments :
            BuyFieldTicket(caller, will_home_team_win, payment)
    \/ \E caller \in Buyers, seat \in Seats, will_home_team_win \in BOOLEAN,
          payment \in LuxuryPayments :
            BuyLuxuryTicket(caller, seat, will_home_team_win, payment)

SpecEvent == EventInit /\ [][EventNext]_vars

\* the tickets of a section that left the vault to a buyer
Sold(section) ==
    {id \in TicketIds : ticket_owner[id] # NoOwner /\ ticket_data[id].section = section}

\* the price and the tickets in the vault that match a buy call
PriceOf(call) == IF call.op = "buy_field_ticket" THEN 10 ELSE 100
Matching(call) ==
    {id \in tickets :
        /\ ticket_data[id].section
             = (IF call.op = "buy_field_ticket" THEN "Field" ELSE "Luxury")
        /\ ticket_data[id].seat = call.seat}

\* C23: after any sequence of buy_field_ticket and buy_luxury_ticket calls
\* a ticket is either in the vault or with one buyer, the tickets in the
\* vault and the tickets sold are all the tickets minted, collected_xrd is
\* 10 * (field tickets sold) + 100 * (luxury tickets sold), and a ticket
\* handed out was in the vault and had never been handed out; a call for
\* which no ticket of the section and seat is in the vault (seat sold,
\* unknown seat, section sold out), or that pays less than the price, fails
\* and leaves the vault, the tickets and collected_xrd as they were.
TicketsSoldOnce ==
    [][/\ tickets' \cap (Sold("Field")' \cup Sold("Luxury")') = {}
       /\ tickets' \cup Sold("Field")' \cup Sold("Luxury")' = TicketIds
       /\ Cardinality(tickets') + Cardinality(Sold("Field")') + Cardinality(Sold("Luxury")')
            = LuxuryRows * SeatsPerRow + FieldTickets
       /\ collected_xrd' = 10 * Cardinality(Sold("Field")')
                           + 100 * Cardinality(Sold("Luxury")')
       /\ tickets' \subseteq tickets
       /\ \A id \in last'.nfts :
            /\ id \in tickets
            /\ id \notin tickets'
            /\ ticket_owner[id] = NoOwner
            /\ ticket_owner'[id] = last'.caller
       /\ \A id \in TicketIds \ last'.nfts : ticket_owner'[id] = ticket_owner[id]
       /\ (Matching(last') = {} \/ last'.amount < PriceOf(last'))
            => /\ last'.err # "none"
               /\ last'.nfts = {}
               /\ tickets' = tickets
               /\ ticket_data' = ticket_data
               /\ collected_xrd' = collected_xrd
               /\ xrd' = xrd
       /\ last'.err = "none" => Cardinality(last'.nfts) = 1]_vars

\* a field ticket was refused, the field section being sold out and a
\* luxury ticket sold
TicketsSoldOnceWitness ==
    /\ last.op = "buy_field_ticket"
    /\ last.err = "TicketNotFound"
    /\ Cardinality(Sold("Field")) = FieldTickets
    /\ Sold("Luxury") # {}
    /\ collected_xrd = 10 * FieldTickets + 100 * Cardinality(Sold("Luxury"))

\* a luxury seat that was sold was refused to a second purchase
SoldSeatRefused ==
    /\ last.op = "buy_luxury_ticket"
    /\ last.err = "TicketNotFound"
    /\ \E id \in Sold("Luxury") : ticket_data[id].seat = last.seat

====
